---- MODULE Spec2Model ----
(***************************************************************************)
(* Model of ffd.py: FlareDataset records built by a caller, the Flares     *)
(* aggregate computed from them by Flares.__init__, and Flares.plot_ffd.   *)
(*                                                                         *)
(* numpy float64 values are modelled as exact extended rationals <<n, d>>  *)
(* in lowest terms: d > 0 is the finite value n/d, <<1, 0>> is +inf,       *)
(* <<-1, 0>> is -inf and <<0, 0>> is nan, with the IEEE-754 rules for      *)
(* division by zero and for inf/nan (numpy only warns on them).  Rounding  *)
(* of the last bits is not modelled.                                       *)
(***************************************************************************)
EXTENDS Integers, Sequences, FiniteSets

\* Bounds of the model: length of the caller's dataset list, and number of
\* flare energies summed over the caller's datasets.
MaxDatasets == 2
MaxEvents == 2

\* Values the caller draws from: flare energies, detection limits, exposure
\* times (FlareDataset accepts any number: negative and zero exposures too).
Energies == 0..2
Limits == 1..2
Exposures == (0 - 1)..1

VARIABLES datasets, pc, err, flares, step_call

vars == <<datasets, pc, err, flares, step_call>>

----------------------------------------------------------------------------
(* float64 arithmetic on extended rationals *)

Abs(x) == IF x < 0 THEN 0 - x ELSE x

Sign(x) == IF x > 0 THEN 1 ELSE IF x < 0 THEN 0 - 1 ELSE 0

RECURSIVE Gcd(_, _)
Gcd(a, b) == IF b = 0 THEN a ELSE Gcd(b, a % b)

\* n/d with d >= 0, in lowest terms; d = 0 gives +inf, -inf or nan
Norm(n, d) ==
  IF d = 0 THEN <<Sign(n), 0>>
  ELSE LET g == Gcd(Abs(n), d) IN <<n \div g, d \div g>>

Float(k) == <<k, 1>>

NaN == <<0, 0>>

IsNaN(a) == a = NaN

IsFinite(a) == a[2] > 0

FMul(a, b) == Norm(a[1] * b[1], a[2] * b[2])

\* 1/0 is +inf (the zero of a sum of exposures is +0.0), 1/inf is 0
Recip(a) ==
  IF IsNaN(a) THEN NaN
  ELSE IF a[1] = 0 THEN <<1, 0>>
  ELSE IF a[1] > 0 THEN <<a[2], a[1]>>
  ELSE <<0 - a[2], 0 - a[1]>>

FDiv(a, b) == FMul(a, Recip(b))

FAdd(a, b) ==
  IF IsNaN(a) \/ IsNaN(b) THEN NaN
  ELSE IF ~IsFinite(a) /\ ~IsFinite(b) THEN (IF a = b THEN a ELSE NaN)
  ELSE IF ~IsFinite(a) THEN a
  ELSE IF ~IsFinite(b) THEN b
  ELSE Norm(a[1] * b[2] + b[1] * a[2], a[2] * b[2])

\* IEEE comparisons: anything compared with nan is false
FEq(a, b) == ~IsNaN(a) /\ ~IsNaN(b) /\ a = b

FLe(a, b) ==
  /\ ~IsNaN(a)
  /\ ~IsNaN(b)
  /\ \/ a = b
     \/ a = <<0 - 1, 0>>
     \/ b = <<1, 0>>
     \/ IsFinite(a) /\ IsFinite(b) /\ a[1] * b[2] <= b[1] * a[2]

----------------------------------------------------------------------------
(* numpy array operations used by Flares.__init__ *)

\* a[::-1]
Reverse(a) == [k \in 1..Len(a) |-> a[Len(a) + 1 - k]]

\* python sum / np.sum of integers
RECURSIVE SumSeq(_)
SumSeq(a) == IF Len(a) = 0 THEN 0 ELSE a[1] + SumSeq(Tail(a))

\* np.cumsum of integers
RECURSIVE CumSumInt(_)
CumSumInt(a) ==
  IF Len(a) = 0 THEN <<>>
  ELSE LET p == CumSumInt(SubSeq(a, 1, Len(a) - 1))
       IN Append(p, (IF Len(p) = 0 THEN 0 ELSE p[Len(p)]) + a[Len(a)])

\* np.cumsum of floats
RECURSIVE CumSumFloat(_)
CumSumFloat(a) ==
  IF Len(a) = 0 THEN <<>>
  ELSE IF Len(a) = 1 THEN a
  ELSE LET p == CumSumFloat(SubSeq(a, 1, Len(a) - 1))
       IN Append(p, FAdd(p[Len(p)], a[Len(a)]))

\* variant: an empty list of arrays concatenates to an empty array
ConcatenateNeverRaises(arrs) == FALSE

\* np.concatenate raises ValueError on an empty list of arrays
ConcatenateRaises(arrs) == Len(arrs) = 0

RECURSIVE Concatenate(_)
Concatenate(arrs) ==
  IF Len(arrs) = 0 THEN <<>> ELSE Head(arrs) \o Concatenate(Tail(arrs))

\* np.sort: ascending
RECURSIVE Insert(_, _)
Insert(x, s) ==
  IF Len(s) = 0 THEN <<x>>
  ELSE IF x <= Head(s) THEN <<x>> \o s
  ELSE <<Head(s)>> \o Insert(x, Tail(s))

\* variant: the concatenated energies are left in input order
SortOmitted(a) == a

RECURSIVE Sort(_)
Sort(a) == IF Len(a) = 0 THEN <<>> ELSE Insert(Head(a), Sort(Tail(a)))

\* np.argsort: the index permutations that put a in ascending order; the
\* default kind is not stable, so equal keys may come out in either order
Argsorts(a) ==
  {p \in [1..Len(a) -> 1..Len(a)] :
     /\ \A i, j \in 1..Len(a) : i # j => p[i] # p[j]
     /\ \A i \in 1..Len(a) : i < Len(a) => a[p[i]] <= a[p[i + 1]]}

\* a[isort]
Take(a, isort) == [k \in 1..Len(isort) |-> a[isort[k]]]

\* np.searchsorted(a, v, side='right') by bisection: the 0-based insertion
\* point after every entry <= v
RECURSIVE Bisect(_, _, _, _)
Bisect(a, v, lo, hi) ==
  IF lo >= hi THEN lo
  ELSE LET mid == (lo + hi) \div 2
       IN IF a[mid + 1] <= v THEN Bisect(a, v, mid + 1, hi)
          ELSE Bisect(a, v, lo, mid)

SearchSortedRight(a, v) == Bisect(a, v, 0, Len(a))

\* a[k] for a 0-based python index k, negative k counting from the end
PyIndex(a, k) == IF k < 0 THEN a[Len(a) + k + 1] ELSE a[k + 1]

----------------------------------------------------------------------------
(* FlareDataset *)

FlareDataset(detection_limit, exposure_time, flare_energies) ==
  [elim |-> detection_limit,
   expt |-> exposure_time,
   e |-> flare_energies,
   n |-> Len(flare_energies)]

EnergyLists(k) == UNION {[1..m -> Energies] : m \in 0..k}

----------------------------------------------------------------------------
(* Flares.__init__ *)

n_total(ds) == SumSeq([k \in 1..Len(ds) |-> ds[k].n])

expt_total(ds) == SumSeq([k \in 1..Len(ds) |-> ds[k].expt])

SortedEnergies(ds) == Sort(Concatenate([k \in 1..Len(ds) |-> ds[k].e]))

\* lines 55-61, for one argsort result
ExptDetectable(ds, isort) ==
  LET expts == Take([k \in 1..Len(ds) |-> ds[k].expt], isort)
      elims == Take([k \in 1..Len(ds) |-> ds[k].elim], isort)
      cumexpts == CumSumInt(expts)
      e == SortedEnergies(ds)
      i_lims == [k \in 1..Len(e) |-> SearchSortedRight(elims, e[k])]
  IN [k \in 1..Len(e) |-> PyIndex(cumexpts, i_lims[k] - 1)]

\* variant: the rank sequence without the + 1 (n_total - 1 down to 0)
CumfreqNaiveFromZero(ds) ==
  LET n == n_total(ds)
      cumno == [k \in 1..n |-> n - k]
  IN [k \in 1..n |-> FDiv(Float(cumno[k]), Float(expt_total(ds)))]

\* lines 64-65
CumfreqNaive(ds) ==
  LET n == n_total(ds)
      cumno == [k \in 1..n |-> n - k + 1]
  IN [k \in 1..n |-> FDiv(Float(cumno[k]), Float(expt_total(ds)))]

\* lines 66-67
CumfreqCorrected(ds, detectable) ==
  LET T == Float(expt_total(ds))
      inv == [k \in 1..Len(detectable) |-> FDiv(Float(1), Float(detectable[k]))]
      run == Reverse(CumSumFloat(Reverse(inv)))
      cumno_corrected == [k \in 1..Len(run) |-> FMul(run[k], T)]
  IN [k \in 1..Len(run) |-> FDiv(cumno_corrected[k], T)]

NoFlares == [constructed |-> FALSE]

NoCall == [called |-> FALSE]

Init ==
  /\ datasets = <<>>
  /\ pc = "caller"
  /\ err = "none"
  /\ flares = NoFlares
  /\ step_call = NoCall

\* the caller builds one more FlareDataset and appends it to its list
NewDataset ==
  /\ pc = "caller"
  /\ Len(datasets) < MaxDatasets
  /\ \E lim \in Limits, expt \in Exposures,
        en \in EnergyLists(MaxEvents - n_total(datasets)) :
       datasets' = Append(datasets, FlareDataset(lim, expt, en))
  /\ UNCHANGED <<pc, err, flares, step_call>>

\* Flares(datasets)
FlaresInit ==
  /\ pc = "caller"
  /\ IF ConcatenateRaises([k \in 1..Len(datasets) |-> datasets[k].e])
     THEN /\ pc' = "raised"
          /\ err' = "ValueError"
          /\ flares' = flares
     ELSE /\ pc' = "constructed"
          /\ err' = err
          /\ \E isort \in Argsorts([k \in 1..Len(datasets) |-> datasets[k].elim]) :
               LET det == ExptDetectable(datasets, isort)
               IN flares' = [constructed |-> TRUE,
                             datasets |-> datasets,
                             n_total |-> n_total(datasets),
                             expt_total |-> expt_total(datasets),
                             e |-> SortedEnergies(datasets),
                             expt_detectable |-> det,
                             cumfreq_naive |-> CumfreqNaive(datasets),
                             cumfreq_corrected |-> CumfreqCorrected(datasets, det)]
  /\ UNCHANGED <<datasets, step_call>>

\* keyword arguments a caller may pass to plot_ffd: any subset of the keys
KwKeys == {"ax", "corrected", "color"}

KwValues(k) ==
  IF k = "ax" THEN {"ax1"}
  ELSE IF k = "corrected" THEN {"True", "False"}
  ELSE {"red"}

Kwargs ==
  UNION {{kw \in [K -> {"ax1", "True", "False", "red"}] :
            \A k \in K : kw[k] \in KwValues(k)} : K \in SUBSET KwKeys}

\* flares.plot_ffd(*args, **kwargs): the one call it makes, ax.step(...)
PlotFfd ==
  /\ pc = "constructed"
  /\ \E args \in {<<>>, <<"r-">>}, kwargs \in Kwargs :
       LET ax == IF "ax" \in DOMAIN kwargs THEN kwargs["ax"] ELSE "gca"
           corrected == IF "corrected" \in DOMAIN kwargs
                        THEN kwargs["corrected"] = "True" ELSE TRUE
           cf == IF corrected THEN flares.cumfreq_corrected
                 ELSE flares.cumfreq_naive
       IN step_call' = [called |-> TRUE,
                        in_args |-> args,
                        in_kwargs |-> kwargs,
                        ax |-> ax,
                        x |-> flares.e,
                        y |-> cf,
                        where |-> "post",
                        kwargs |-> kwargs]
  /\ UNCHANGED <<datasets, pc, err, flares>>

Next == NewDataset \/ FlaresInit

Spec == Init /\ [][Next]_vars

NextPlot == NewDataset \/ FlaresInit \/ PlotFfd

SpecPlot == Init /\ [][NextPlot]_vars

----------------------------------------------------------------------------
(* Properties *)

Constructed == pc = "constructed"

Idx(a) == 1..Len(a)

\* sum of exposure_time over the datasets whose detection_limit <= v
DetectableSum(ds, v) ==
  SumSeq([k \in Idx(ds) |-> IF ds[k].elim <= v THEN ds[k].expt ELSE 0])

\* number of entries of e that are >= v
CountGe(e, v) == Cardinality({k \in Idx(e) : e[k] >= v})

Count(e, v) == Cardinality({k \in Idx(e) : e[k] = v})

AllEvents(ds) == Concatenate([k \in Idx(ds) |-> ds[k].e])

\* some event of the collection lies below every dataset's detection limit
SomeEventBelowAllLimits(ds) ==
  \E k \in Idx(AllEvents(ds)) : \A d \in Idx(ds) : AllEvents(ds)[k] < ds[d].elim

NonNegExposures(ds) == \A d \in Idx(ds) : ds[d].expt >= 0

DistinctLimits(ds) == \A c, d \in Idx(ds) : c # d => ds[c].elim # ds[d].elim

\* sum over j >= i of 1/det[j], accumulated from the highest index down
RECURSIVE TopDownSum(_, _)
TopDownSum(det, i) ==
  IF i = Len(det) THEN FDiv(Float(1), Float(det[i]))
  ELSE FAdd(TopDownSum(det, i + 1), FDiv(Float(1), Float(det[i])))

\* C1: after construction, expt_detectable[i] is the sum of exposure_time
\* over exactly the datasets whose detection_limit <= e[i], for every input,
\* events below every detection limit included.
C1_DetectableIsSumOverLimits ==
  Constructed =>
    \A i \in Idx(flares.e) :
      flares.expt_detectable[i] = DetectableSum(flares.datasets, flares.e[i])

C3_CorrectedIsTopDownSum ==
  (Constructed /\ \A j \in Idx(flares.e) : flares.expt_detectable[j] # 0) =>
    \A i \in Idx(flares.e) :
      FEq(flares.cumfreq_corrected[i], TopDownSum(flares.expt_detectable, i))

\* C4: constructed from exactly one dataset, cumfreq_corrected[i] equals
\* cumfreq_naive[i] and expt_detectable[i] equals expt_total, for every i.
C4_SingleDatasetCorrectedIsNaive ==
  (Constructed /\ Len(flares.datasets) = 1) =>
    \A i \in Idx(flares.e) :
      /\ FEq(flares.cumfreq_corrected[i], flares.cumfreq_naive[i])
      /\ flares.expt_detectable[i] = flares.expt_total

\* C5: construction from a collection with an event below every dataset's
\* detection limit fails; it never completes.
C5_EventBelowAllLimitsRaises ==
  SomeEventBelowAllLimits(datasets) => ~Constructed

\* C6: construction from a non-empty collection whose exposure times sum to
\* 0 fails; it never completes (so never with a non-finite frequency).
C6_ZeroTotalExposureRaises ==
  (Len(datasets) > 0 /\ expt_total(datasets) = 0) => ~Constructed

\* C7: construction from an empty collection fails with an error; no Flares
\* object is ever produced from zero datasets.
C7_EmptyCollectionRaises ==
  /\ Len(datasets) = 0 => (~Constructed /\ flares = NoFlares)
  /\ pc = "raised" => (err = "ValueError" /\ flares = NoFlares)
  /\ Constructed => (flares.constructed /\ Len(flares.datasets) > 0)

C7_Witness ==
  pc = "raised" /\ Len(datasets) = 0 /\ err = "ValueError" /\ flares = NoFlares

\* C8: after construction from datasets with pairwise distinct detection
\* limits and exposure times >= 0, expt_detectable is non-decreasing.
C8_DetectableNonDecreasing ==
  (Constructed /\ DistinctLimits(flares.datasets)
               /\ NonNegExposures(flares.datasets)) =>
    \A i, j \in Idx(flares.e) :
      i < j => flares.expt_detectable[i] <= flares.expt_detectable[j]

\* C9: after construction from datasets with exposure times >= 0 and
\* positive total exposure, e is non-decreasing and a permutation of the
\* concatenation of the datasets' events, and cumfreq_naive and
\* cumfreq_corrected are non-increasing along it.
C9_SortedAndMonotone ==
  (Constructed /\ NonNegExposures(flares.datasets) /\ flares.expt_total > 0) =>
    /\ Len(flares.e) = Len(AllEvents(flares.datasets))
    /\ \A v \in Energies : Count(flares.e, v) = Count(AllEvents(flares.datasets), v)
    /\ Len(flares.cumfreq_naive) = Len(flares.e)
    /\ Len(flares.cumfreq_corrected) = Len(flares.e)
    /\ \A i \in Idx(flares.e) :
         i < Len(flares.e) =>
           /\ flares.e[i] <= flares.e[i + 1]
           /\ FLe(flares.cumfreq_naive[i + 1], flares.cumfreq_naive[i])
           /\ FLe(flares.cumfreq_corrected[i + 1], flares.cumfreq_corrected[i])

\* events arrive out of order from two datasets, and the lower one is
\* detectable only by a dataset of zero exposure (its corrected term is inf)
C9_Witness ==
  /\ Constructed
  /\ NonNegExposures(flares.datasets)
  /\ flares.expt_total > 0
  /\ Len(flares.datasets) = 2
  /\ Len(flares.e) = 2
  /\ AllEvents(flares.datasets) # flares.e
  /\ flares.expt_detectable[1] = 0
  /\ flares.cumfreq_corrected[1] = <<1, 0>>
  /\ IsFinite(flares.cumfreq_corrected[2])

\* C10: plot_ffd makes one step call with x = e, y = cumfreq_corrected when
\* corrected is true or absent and cumfreq_naive when it is false,
\* where = 'post', and forwards only the caller's styling options: its own
\* ax and corrected options are not among the forwarded options.
C10_StepCallForwardsOnlyStyling ==
  step_call.called =>
    /\ step_call.x = flares.e
    /\ step_call.y = (IF "corrected" \in DOMAIN step_call.in_kwargs
                         /\ step_call.in_kwargs["corrected"] = "False"
                      THEN flares.cumfreq_naive ELSE flares.cumfreq_corrected)
    /\ step_call.where = "post"
    /\ DOMAIN step_call.kwargs = DOMAIN step_call.in_kwargs \ {"ax", "corrected"}
    /\ \A k \in DOMAIN step_call.kwargs :
         step_call.kwargs[k] = step_call.in_kwargs[k]

----------------------------------------------------------------------------
(* Where the code and the statements above agree *)

\* expt_detectable is the sum over the datasets with detection_limit <= e[i]
\* for every event that is not below every detection limit
DetectableIsSumAtOrAboveLowestLimit ==
  Constructed =>
    \A i \in Idx(flares.e) :
      (\E d \in Idx(flares.datasets) : flares.datasets[d].elim <= flares.e[i]) =>
        flares.expt_detectable[i] = DetectableSum(flares.datasets, flares.e[i])

\* an event below every detection limit gets the total exposure
DetectableWrapsToTotal ==
  Constructed =>
    \A i \in Idx(flares.e) :
      (\A d \in Idx(flares.datasets) : flares.e[i] < flares.datasets[d].elim) =>
        flares.expt_detectable[i] = flares.expt_total

\* the running sum is not rescaled when expt_total is non-zero
CorrectedIsTopDownSumIfTotalNonZero ==
  (Constructed /\ flares.expt_total # 0
               /\ \A j \in Idx(flares.e) : flares.expt_detectable[j] # 0) =>
    \A i \in Idx(flares.e) :
      FEq(flares.cumfreq_corrected[i], TopDownSum(flares.expt_detectable, i))

\* with exposures >= 0, non-zero expt_detectable already gives the equality
CorrectedIsTopDownSumIfNonNegExposures ==
  (Constructed /\ NonNegExposures(flares.datasets)
               /\ \A j \in Idx(flares.e) : flares.expt_detectable[j] # 0) =>
    \A i \in Idx(flares.e) :
      FEq(flares.cumfreq_corrected[i], TopDownSum(flares.expt_detectable, i))

\* one dataset of non-zero exposure: the two curves coincide
SingleDatasetCorrectedIsNaiveIfTotalNonZero ==
  (Constructed /\ Len(flares.datasets) = 1) =>
    \A i \in Idx(flares.e) :
      /\ flares.expt_detectable[i] = flares.expt_total
      /\ flares.expt_total # 0 =>
           FEq(flares.cumfreq_corrected[i], flares.cumfreq_naive[i])

\* without an event below every limit, expt_detectable is non-decreasing
DetectableNonDecreasingIfNoEventBelowAllLimits ==
  (Constructed /\ NonNegExposures(flares.datasets)
               /\ ~SomeEventBelowAllLimits(flares.datasets)) =>
    \A i, j \in Idx(flares.e) :
      i < j => flares.expt_detectable[i] <= flares.expt_detectable[j]

====
